---- MODULE Spec2Model ----
(***************************************************************************)
(* The per-lecture streaming pipeline of backend/optimized_main.py:        *)
(* OptimizedAudioProcessor (intake, worker loop, mid-stream and final      *)
(* synthesis), ConnectionManager and websocket_endpoint, for one           *)
(* lecture_id.  Every per-lecture map of the program (audio_queues,        *)
(* transcription_buffers, last_synthesis_time, structured_notes_history,   *)
(* processing_tasks, active_connections) is keyed by lecture_id and no     *)
(* code path touches two keys, so the variables below are the entries of   *)
(* one key.                                                                *)
(*                                                                         *)
(* The program runs on one asyncio event loop.  A step of the model is     *)
(* what a coroutine executes between two suspensions: the awaited call     *)
(* completes (with an outcome drawn from its possible results) and the     *)
(* code runs on to the next await.  Collaborators (transcriber, retrieval, *)
(* synthesizers, database, websocket transport, clock) are inputs.         *)
(***************************************************************************)
EXTENDS Integers, Sequences, FiniteSets, TLC

\* ---- bounds of the exploration ----
MaxConns == 4      \* websocket connections opened for the lecture
MaxSegs == 5       \* audio chunks submitted over HTTP
MaxCmds == 2       \* control messages received over the websockets
MaxFaults == 1     \* collaborator calls that fail
MaxTicks == 3      \* the clock is read at Epoch + 20k, k <= MaxTicks (and at the scenario's times)
Epoch == 1000      \* time.time() when the lecture starts (any value > 0)

\* ---- constants of the program ----
SynthesisInterval == 60   \* time_since_last >= 60
MinBufferSize == 3        \* buffer_size >= 3
WindowSize == 3           \* transcription_buffers[lecture_id][-3:]
KeepSize == 1             \* transcription_buffers[lecture_id][-1:]
ChunkSeconds == 20        \* 20-second audio chunks

Conns == 1..MaxConns
Segs == 1..MaxSegs
H(i) == i                 \* the websocket_endpoint coroutine of connection i
W(i) == MaxConns + i      \* the process_lecture_audio task created by connection i
Handlers == {H(i) : i \in Conns}
Workers == {W(i) : i \in Conns}
Tasks == 1..(2 * MaxConns)
IsWorker(t) == t > MaxConns
ConnOf(t) == IF IsWorker(t) THEN t - MaxConns ELSE t

VARIABLES
  active_connections,        \* manager.active_connections[lecture_id]: a connection, 0 = no entry
  wsState,                   \* per connection: "new", "open" or "closed" (client side gone)
  processing_tasks,          \* processor.processing_tasks[lecture_id]: a worker, 0 = no entry
  cancelReq,                 \* workers on which Task.cancel() was called and not yet delivered
  ready,                     \* tasks the event loop has scheduled to wake up, in call_soon order
  getters,                   \* workers suspended in Queue.get(), in the order they began to wait
  audio_queues,              \* identity of the Queue object in processor.audio_queues[lecture_id]
  queues,                    \* contents of every Queue object ever installed
  transcription_buffers,     \* processor.transcription_buffers[lecture_id]
  last_synthesis_time,       \* processor.last_synthesis_time[lecture_id]
  structured_notes_history,  \* processor.structured_notes_history[lecture_id]
  pc,                        \* per task: the await it is suspended at
  loc,                       \* per task: its local variables
  inflight,                  \* chunks between receive_audio_chunk's lookup and the put
  response,                  \* the last HTTP response of receive_audio_chunk
  now,                       \* the last value read from time.time()
  nextSeg,                   \* number of the next chunk to arrive
  ncmds,                     \* control messages received so far
  deq,                       \* history: how many times each chunk was taken off a queue
  stale,                     \* history: chunks that were pending in a queue when it was replaced
  lastPush,                  \* history: the last websocket.send_json call and its outcome
  lastAppended,              \* history: the fragment appended last to the buffer
  saved,                     \* history: <<chunk_index, fragment>> of every save_transcription call
  nfaults                    \* history: collaborator calls that have failed

vars == <<active_connections, wsState, processing_tasks, cancelReq, ready, getters,
          audio_queues, queues,
          transcription_buffers, last_synthesis_time, structured_notes_history, pc, loc,
          inflight, response, now, nextSeg, ncmds, deq, stale, lastPush, lastAppended,
          saved, nfaults>>

connVars == <<active_connections, wsState>>
taskVars == <<processing_tasks, cancelReq>>
schedVars == <<ready, getters>>
queueVars == <<audio_queues, queues, deq, stale>>
pipeVars == <<transcription_buffers, last_synthesis_time, structured_notes_history, lastAppended>>
intakeVars == <<inflight, response, nextSeg>>
histVars == <<saved, nfaults>>

\* ---- helpers ----
\* s[-n:] of Python
LastN(s, n) == IF Len(s) <= n THEN s ELSE SubSeq(s, Len(s) - n + 1, Len(s))

\* s[:-1] of Python
ButLast(s) == IF s = <<>> THEN <<>> ELSE SubSeq(s, 1, Len(s) - 1)

SeqRange(s) == {s[i] : i \in 1..Len(s)}

Without(s, x) == SelectSeq(s, LAMBDA y : y # x)

\* the members of a set of numbers, ascending
RECURSIVE Ascending(_)
Ascending(S) ==
  IF S = {} THEN <<>>
  ELSE LET m == CHOOSE x \in S : \A y \in S : x <= y IN <<m>> \o Ascending(S \ {m})

\* str.strip() on the transcriber's text: "" and whitespace-only both give ""
Strip(s) == IF s = " " THEN "" ELSE s

\* what transcribe_local can do with a chunk: raise, or return one of these texts
TranscribeResults == {"raise", "", " ", "speech"}

\* times at which the fragments of the end-to-end scenario are evaluated, in
\* seconds from the start of the lecture
ScenarioAt == <<0, 20, 40, 61>>

\* values time.time() can return
Clock == {Epoch + ChunkSeconds * k : k \in 0..MaxTicks}
           \cup {Epoch + ScenarioAt[i] : i \in 1..Len(ScenarioAt)}

\* what a read of time.time() can give: the wall clock can be set back
\* between two reads, so a read can be below the one before it
TimeReads == Clock

NoLoc == [ws |-> 0, seg |-> 0, window |-> <<>>, idx |-> -1, num |-> 0, recent |-> <<>>,
          topic_shift |-> FALSE, should_synthesize |-> FALSE, old |-> 0, q |-> -1, cmd |-> "",
          woken |-> FALSE, text |-> "none"]

SynthPcs == {"s_query", "s_started", "s_synth", "s_save", "s_notes", "s_err"}
FinalPcs == {"f_started", "f_query", "f_synth", "f_save", "f_notes", "f_err"}
DonePcs == {"cancelled", "faulted"}
Alive(w) == pc[W(w)] \notin {"none", "cancelled", "faulted"}

\* No coroutine is in the middle of a step: a worker at "top" is running
\* synchronously (it came back to `while True` and has not reached an await yet).
Sync == \A w \in Conns : pc[W(w)] # "top"

Load == Cardinality({c \in Conns : wsState[c] # "new"})
        + Cardinality({c \in Conns : wsState[c] = "closed"}) + (nextSeg - 1) + ncmds

\* A collaborator call ends; `failed` says that it raised or reported a failure.
Injects(failed) ==
  /\ failed => nfaults < MaxFaults
  /\ nfaults' = IF failed THEN nfaults + 1 ELSE nfaults

\* websocket.send_json on a connection: delivered while the client is there;
\* once the client is gone the transport either raises or the frame is lost
SendOutcomes(ws) == IF wsState[ws] = "open" THEN {"ok"} ELSE {"dropped", "raise"}

Push(type, ws, res, num) == lastPush' = [type |-> type, ws |-> ws, res |-> res, num |-> num]

Init ==
  /\ active_connections = 0
  /\ wsState = [c \in Conns |-> "new"]
  /\ processing_tasks = 0
  /\ cancelReq = {}
  /\ ready = <<>>
  /\ getters = <<>>
  /\ audio_queues = 0
  /\ queues = [q \in 0..MaxConns |-> <<>>]
  /\ transcription_buffers = <<>>
  /\ last_synthesis_time = 0
  /\ structured_notes_history = <<>>
  /\ pc = [t \in Tasks |-> IF IsWorker(t) THEN "none" ELSE "new"]
  /\ loc = [t \in Tasks |-> NoLoc]
  /\ inflight = {}
  /\ response = [status |-> "none", seg |-> 0, queue_size |-> 0]
  /\ now = Epoch
  /\ nextSeg = 1
  /\ ncmds = 0
  /\ deq = [s \in Segs |-> 0]
  /\ stale = {}
  /\ lastPush = [type |-> "none", ws |-> 0, res |-> "ok", num |-> 0]
  /\ lastAppended = 0
  /\ saved = {}
  /\ nfaults = 0

\* ----------------------- ConnectionManager -----------------------

\* ConnectionManager.connect after websocket.accept()
ManagerConnect(h) == h

\* ConnectionManager.disconnect: deletes the lecture's entry when there is one,
\* whichever connection it holds
ManagerDisconnect(h) == IF active_connections # 0 THEN 0 ELSE active_connections

\* ----------------------- websocket_endpoint ----------------------

\* The queue object is replaced by a fresh one; what was pending in the old
\* object stays there.
PendingSegs(q) == {queues[q][i].seg : i \in 1..Len(queues[q])}

\* asyncio runs the wake-ups scheduled with call_soon in the order they were
\* scheduled: the first step of a created task, the wake-up of a task whose
\* awaited future was cancelled or resolved (a get() that an item was put for,
\* an awaited task that finished).  Completions of I/O (the websocket, HTTP
\* requests, the collaborators, timers) arrive at any time.
Scheduled(t) == t \in SeqRange(ready)
Runs(t) == ready # <<>> /\ Head(ready) = t

\* the handlers awaiting worker t, in the order they began to await it
\* (connections are accepted in the order of their numbers)
Waiters(t) == {h \in Conns : pc[H(h)] = "await_old" /\ loc[H(h)].old = t}
WakeWaiters(t) == Ascending({H(h) : h \in Waiters(t)})

\* the workers suspended in get() on queue object q, first waiter first
GettersOn(q) == SelectSeq(getters, LAMBDA g : loc[W(g)].q = q)

\* What Task.cancel() finds on task t.  "pending": the future t waits for is
\* not done, cancel() cancels it and that schedules t's wake-up now, behind
\* the wake-ups already scheduled.  "marked": t's wake-up is already on its
\* way (the first step of a created task, a get() an item was put for, a
\* call that has completed), cancel() only sets _must_cancel and the wake-up
\* keeps its place; so does a second cancel().  A get() that no item was put
\* for is pending; whether a call of a collaborator or a send has completed
\* is not known to the caller.
CancelFinds(t) ==
  IF Scheduled(t) \/ ConnOf(t) \in cancelReq THEN {"marked"}
  ELSE IF pc[t] = "get" THEN {"pending"}
  ELSE {"pending", "marked"}

\* websocket_endpoint up to its first suspension after accept(): register the
\* connection; with a task registered, cancel it and await it, which does not
\* suspend when that task has already finished; then (or with no task
\* registered) install a queue and create the new task.
Connect(h) ==
  /\ pc[H(h)] = "new"
  /\ Sync
  /\ \A g \in Conns : g < h => pc[H(g)] # "new"
  /\ wsState' = [wsState EXCEPT ![h] = "open"]
  /\ active_connections' = ManagerConnect(h)
  /\ IF processing_tasks = 0
       THEN /\ pc' = [pc EXCEPT ![H(h)] = "confirm", ![W(h)] = "start"]
            /\ processing_tasks' = h
            /\ ready' = Append(ready, W(h))
            /\ UNCHANGED <<cancelReq, getters, loc, audio_queues, stale>>
       ELSE IF pc[W(processing_tasks)] \in DonePcs
         THEN /\ audio_queues' = h
              /\ stale' = stale \cup PendingSegs(audio_queues)
              /\ pc' = [pc EXCEPT ![H(h)] = "confirm", ![W(h)] = "start"]
              /\ processing_tasks' = h
              /\ ready' = Append(ready, W(h))
              /\ UNCHANGED <<cancelReq, getters, loc>>
         ELSE /\ cancelReq' = cancelReq \cup {processing_tasks}
              /\ \E found \in CancelFinds(W(processing_tasks)) :
                   ready' = IF found = "pending" THEN Append(ready, W(processing_tasks))
                            ELSE ready
              /\ getters' = Without(getters, processing_tasks)
              /\ pc' = [pc EXCEPT ![H(h)] = "await_old"]
              /\ loc' = [loc EXCEPT ![H(h)].old = processing_tasks]
              /\ UNCHANGED <<processing_tasks, audio_queues, stale>>
  /\ UNCHANGED <<queues, deq, pipeVars, intakeVars, now, ncmds, lastPush, histVars>>

\* `await old_task` returns in a handler: the awaited task has finished.  The
\* handler replaces the queue, creates its task and registers it.
Resume(h) ==
  /\ pc[H(h)] = "await_old"
  /\ Runs(H(h))
  /\ Sync
  /\ audio_queues' = h
  /\ stale' = stale \cup PendingSegs(audio_queues)
  /\ processing_tasks' = h
  /\ pc' = [pc EXCEPT ![H(h)] = "confirm", ![W(h)] = "start"]
  /\ loc' = [loc EXCEPT ![H(h)] = NoLoc]
  /\ ready' = Append(Tail(ready), W(h))
  /\ UNCHANGED <<connVars, cancelReq, getters, queues, deq, pipeVars, intakeVars, now, ncmds,
                 lastPush, histVars>>

\* The client side of a connection goes away.
ClientClose(h) ==
  /\ Sync
  /\ wsState[h] = "open"
  /\ wsState' = [wsState EXCEPT ![h] = "closed"]
  /\ UNCHANGED <<schedVars, active_connections, taskVars, queueVars, pipeVars, pc, loc,
                 intakeVars, now, ncmds, lastPush, histVars>>

\* An exception leaves websocket_endpoint: WebSocketDisconnect is caught and
\* calls manager.disconnect, anything else ends the handler.
HandlerRaise(h, exc) ==
  /\ pc' = [pc EXCEPT ![H(h)] = IF exc = "WebSocketDisconnect" THEN "done" ELSE "crashed"]
  /\ loc' = [loc EXCEPT ![H(h)] = NoLoc]
  /\ active_connections' =
       IF exc = "WebSocketDisconnect" THEN ManagerDisconnect(h) ELSE active_connections

SendExceptions == {"WebSocketDisconnect", "RuntimeError"}

\* await websocket.send_json({"type": "connection_confirmed"})
HandlerConfirm(h) ==
  /\ pc[H(h)] = "confirm"
  /\ Sync
  /\ \E o \in SendOutcomes(h) :
       /\ Push("connection_confirmed", h, o, 0)
       /\ IF o = "raise"
            THEN \E exc \in SendExceptions : HandlerRaise(h, exc)
            ELSE /\ pc' = [pc EXCEPT ![H(h)] = "recv"]
                 /\ UNCHANGED <<loc, active_connections>>
  /\ UNCHANGED <<schedVars, wsState, taskVars, queueVars, pipeVars, intakeVars, now, ncmds,
                 histVars>>

\* await websocket.receive_text() raises WebSocketDisconnect
HandlerDisconnect(h) ==
  /\ pc[H(h)] = "recv"
  /\ Sync
  /\ wsState[h] = "closed"
  /\ HandlerRaise(h, "WebSocketDisconnect")
  /\ UNCHANGED <<schedVars, wsState, taskVars, queueVars, pipeVars, intakeVars, now, ncmds,
                 lastPush, histVars>>

\* what `await websocket.receive_text()` can return: a message of one of the
\* three types the loop handles, a JSON object of another type (no branch is
\* taken), or a text json.loads or message.get raises on ("malformed": not
\* JSON, or JSON that is not an object)
Commands == {"start_recording", "stop_recording", "request_final_synthesis",
             "other_type", "malformed"}

\* final_synthesis up to its first await: with an empty history it returns at
\* once; back in websocket_endpoint, stop_recording goes on to send
\* recording_stopped and request_final_synthesis goes back to receive_text
AfterFinalPc(cmd) == IF cmd = "stop" THEN "stopped" ELSE "recv"
FinalStartPc(cmd) == IF structured_notes_history = <<>> THEN AfterFinalPc(cmd) ELSE "f_started"

\* await websocket.receive_text() returns a text: json.loads and the dispatch
\* on message.get("type").  An exception of json.loads or message.get is not
\* a WebSocketDisconnect: it leaves websocket_endpoint, the handler ends and
\* manager.disconnect is not called.
HandlerCommand(h, m) ==
  /\ pc[H(h)] = "recv"
  /\ Sync
  /\ wsState[h] = "open"
  /\ ncmds < MaxCmds
  /\ ncmds' = ncmds + 1
  /\ CASE m = "start_recording" ->
            /\ pc' = [pc EXCEPT ![H(h)] = "ack_start"]
            /\ UNCHANGED <<loc, active_connections>>
       [] m = "stop_recording" ->
            /\ pc' = [pc EXCEPT ![H(h)] = "sleep"]
            /\ loc' = [loc EXCEPT ![H(h)].cmd = "stop"]
            /\ UNCHANGED active_connections
       [] m = "request_final_synthesis" ->
            /\ pc' = [pc EXCEPT ![H(h)] = FinalStartPc("final")]
            /\ loc' = [loc EXCEPT ![H(h)].cmd = "final"]
            /\ UNCHANGED active_connections
       [] m = "other_type" ->
            UNCHANGED <<pc, loc, active_connections>>
       [] m = "malformed" ->
            HandlerRaise(h, "JSONDecodeError")
  /\ UNCHANGED <<schedVars, wsState, taskVars, queueVars, pipeVars, intakeVars, now,
                 lastPush, histVars>>

\* await websocket.send_json({"type": "recording_started"})
HandlerAckStart(h) ==
  /\ pc[H(h)] = "ack_start"
  /\ Sync
  /\ \E o \in SendOutcomes(h) :
       /\ Push("recording_started", h, o, 0)
       /\ IF o = "raise"
            THEN \E exc \in SendExceptions : HandlerRaise(h, exc)
            ELSE /\ pc' = [pc EXCEPT ![H(h)] = "recv"]
                 /\ UNCHANGED <<loc, active_connections>>
  /\ UNCHANGED <<schedVars, wsState, taskVars, queueVars, pipeVars, intakeVars, now, ncmds,
                 histVars>>

\* faulty variant of SynthWindow: the window is one fragment short
WindowOfTwo(buffer) == LastN(buffer, WindowSize - 1)

\* synthesize_notes up to its first await: the window is the last three
\* fragments of the buffer as it is now
SynthWindow(buffer) == LastN(buffer, WindowSize)

\* faulty variant of StopRunsSynthesis: the last round is left out
StopSkipsSynthesis(buffer) == FALSE

\* stop_recording after `await asyncio.sleep(2)`: with a non-empty buffer run
\* synthesize_notes, else go straight to final_synthesis
StopRunsSynthesis(buffer) == Len(buffer) > 0

HandlerSleep(h) ==
  /\ pc[H(h)] = "sleep"
  /\ Sync
  /\ IF StopRunsSynthesis(transcription_buffers) /\ SynthWindow(transcription_buffers) # <<>>
       THEN /\ pc' = [pc EXCEPT ![H(h)] = "s_query"]
            /\ loc' = [loc EXCEPT ![H(h)].window = SynthWindow(transcription_buffers),
                                  ![H(h)].ws = h]
       ELSE /\ pc' = [pc EXCEPT ![H(h)] = FinalStartPc("stop")]
            /\ UNCHANGED loc
  /\ UNCHANGED <<schedVars, connVars, taskVars, queueVars, pipeVars, intakeVars, now, ncmds,
                 lastPush, histVars>>

\* await websocket.send_json({"type": "recording_stopped"})
HandlerStopped(h) ==
  /\ pc[H(h)] = "stopped"
  /\ Sync
  /\ \E o \in SendOutcomes(h) :
       /\ Push("recording_stopped", h, o, 0)
       /\ IF o = "raise"
            THEN \E exc \in SendExceptions : HandlerRaise(h, exc)
            ELSE /\ pc' = [pc EXCEPT ![H(h)] = "recv"]
                 /\ loc' = [loc EXCEPT ![H(h)] = NoLoc]
                 /\ UNCHANGED active_connections
  /\ UNCHANGED <<schedVars, wsState, taskVars, queueVars, pipeVars, intakeVars, now, ncmds,
                 histVars>>

\* ----------------------- synthesize_notes --------------------------
\* Run by a worker (process_lecture_audio) or by a handler (stop_recording).

\* synthesize_notes returns to its caller: the worker cleans up and goes back
\* to `while True`; the handler goes on to final_synthesis.
SynthReturn(t) ==
  /\ pc' = [pc EXCEPT ![t] = IF IsWorker(t) THEN "top" ELSE FinalStartPc(loc[t].cmd)]
  /\ loc' = [loc EXCEPT ![t] = IF IsWorker(t) THEN NoLoc ELSE [NoLoc EXCEPT !.cmd = loc[t].cmd]]

\* The send in synthesize_notes' except clause raises, so the exception leaves
\* synthesize_notes: process_lecture_audio's `except Exception` logs it and the
\* task ends; in websocket_endpoint it ends the handler.
SynthEscape(t) ==
  IF IsWorker(t)
    THEN /\ pc' = [pc EXCEPT ![t] = "faulted"]
         /\ loc' = [loc EXCEPT ![t] = NoLoc]
         /\ ready' = ready \o WakeWaiters(ConnOf(t))
         /\ UNCHANGED active_connections
    ELSE /\ \E exc \in SendExceptions : HandlerRaise(ConnOf(t), exc)
         /\ UNCHANGED ready

SynthRuns(t, at) == /\ pc[t] = at
                    /\ Sync
                    /\ ~(IsWorker(t) /\ ConnOf(t) \in cancelReq)

\* rag_context = await query_documents(combined_text, lecture_id, top_k=5)
SynthQuery(t) ==
  /\ SynthRuns(t, "s_query")
  /\ \E o \in {"ok", "raise"} :
       /\ pc' = [pc EXCEPT ![t] = IF o = "ok" THEN "s_started" ELSE "s_err"]
       /\ Injects(o # "ok")
  /\ UNCHANGED <<schedVars, connVars, taskVars, queueVars, pipeVars, loc, intakeVars, now,
                 ncmds, lastPush, saved>>

\* await websocket.send_json({"type": "synthesis_started"})
SynthStarted(t) ==
  /\ SynthRuns(t, "s_started")
  /\ \E o \in SendOutcomes(loc[t].ws) :
       /\ Push("synthesis_started", loc[t].ws, o, 0)
       /\ pc' = [pc EXCEPT ![t] = IF o = "raise" THEN "s_err" ELSE "s_synth"]
  /\ UNCHANGED <<schedVars, connVars, taskVars, queueVars, pipeVars, loc, intakeVars, now,
                 ncmds, histVars>>

\* the structured note a successful synthesize_structured_notes returns for
\* these transcriptions
StructuredNote(transcriptions) == [frags |-> transcriptions]

\* faulty variant of HistoryAppend: the new note replaces the history
HistoryReplace(history, note) == <<note>>

\* self.structured_notes_history[lecture_id].append(structured_notes)
HistoryAppend(history, note) == Append(history, note)

\* synthesis_result = await synthesize_structured_notes(...): it raises, or
\* returns success False (nothing more happens: the `if` has no else), or
\* returns success True and the note is appended to the history
SynthCall(t) ==
  /\ SynthRuns(t, "s_synth")
  /\ \E o \in {"success", "failure", "raise"} :
       /\ Injects(o # "success")
       /\ CASE o = "success" ->
                 /\ structured_notes_history' =
                      HistoryAppend(structured_notes_history, StructuredNote(loc[t].window))
                 /\ pc' = [pc EXCEPT ![t] = "s_save"]
                 /\ UNCHANGED loc
            [] o = "failure" ->
                 /\ SynthReturn(t)
                 /\ UNCHANGED structured_notes_history
            [] o = "raise" ->
                 /\ pc' = [pc EXCEPT ![t] = "s_err"]
                 /\ UNCHANGED <<loc, structured_notes_history>>
  /\ UNCHANGED <<schedVars, connVars, taskVars, queueVars, transcription_buffers,
                 last_synthesis_time, lastAppended, intakeVars, now, ncmds, lastPush, saved>>

\* await save_structured_notes(...): a failure is caught and logged
SynthSave(t) ==
  /\ SynthRuns(t, "s_save")
  /\ \E o \in {"ok", "fail"} : Injects(o # "ok")
  /\ pc' = [pc EXCEPT ![t] = "s_notes"]
  /\ UNCHANGED <<schedVars, connVars, taskVars, queueVars, pipeVars, loc, intakeVars, now,
                 ncmds, lastPush, saved>>

\* faulty variants of Truncate: the buffer is not cleared; two fragments are kept
KeepAll(buffer) == buffer
KeepTwo(buffer) == LastN(buffer, KeepSize + 1)

\* Clear processed transcriptions (keep last one for context)
Truncate(buffer) == LastN(buffer, KeepSize)

\* await websocket.send_json({"type": "structured_notes"}), then
\* last_synthesis_time = time.time() and the buffer is cut to its last fragment
SynthNotes(t) ==
  /\ SynthRuns(t, "s_notes")
  /\ \E o \in SendOutcomes(loc[t].ws) :
       /\ Push("structured_notes", loc[t].ws, o, 0)
       /\ IF o = "raise"
            THEN /\ pc' = [pc EXCEPT ![t] = "s_err"]
                 /\ UNCHANGED <<loc, transcription_buffers, last_synthesis_time, now>>
            ELSE /\ \E tm \in TimeReads :
                      /\ now' = tm
                      /\ last_synthesis_time' = tm
                 /\ transcription_buffers' = Truncate(transcription_buffers)
                 /\ SynthReturn(t)
  /\ UNCHANGED <<schedVars, connVars, taskVars, queueVars, structured_notes_history,
                 lastAppended, intakeVars, ncmds, histVars>>

\* faulty variant of SynthErr: the failed round stamps the synthesis time and
\* cuts the buffer as a successful one does
SynthErrCommits(t) ==
  /\ SynthRuns(t, "s_err")
  /\ \E o \in SendOutcomes(loc[t].ws) :
       /\ Push("synthesis_error", loc[t].ws, o, 0)
       /\ IF o = "raise"
            THEN SynthEscape(t)
            ELSE /\ SynthReturn(t)
                 /\ UNCHANGED <<active_connections, ready>>
  /\ last_synthesis_time' = now
  /\ transcription_buffers' = LastN(transcription_buffers, KeepSize)
  /\ UNCHANGED <<wsState, taskVars, getters, queueVars, structured_notes_history,
                 lastAppended, intakeVars, now, ncmds, histVars>>

\* except Exception: await websocket.send_json({"type": "synthesis_error"})
SynthErr(t) ==
  /\ SynthRuns(t, "s_err")
  /\ \E o \in SendOutcomes(loc[t].ws) :
       /\ Push("synthesis_error", loc[t].ws, o, 0)
       /\ IF o = "raise"
            THEN SynthEscape(t)
            ELSE /\ SynthReturn(t)
                 /\ UNCHANGED <<active_connections, ready>>
  /\ UNCHANGED <<wsState, taskVars, getters, queueVars, pipeVars, intakeVars, now, ncmds,
                 histVars>>

\* ----------------------- final_synthesis ---------------------------

FinalReturn(h) ==
  /\ pc' = [pc EXCEPT ![H(h)] = AfterFinalPc(loc[H(h)].cmd)]
  /\ loc' = [loc EXCEPT ![H(h)] = [NoLoc EXCEPT !.cmd = loc[H(h)].cmd]]

\* await websocket.send_json({"type": "final_synthesis_started"})
FinalStarted(h) ==
  /\ pc[H(h)] = "f_started"
  /\ Sync
  /\ \E o \in SendOutcomes(h) :
       /\ Push("final_synthesis_started", h, o, 0)
       /\ pc' = [pc EXCEPT ![H(h)] = IF o = "raise" THEN "f_err" ELSE "f_query"]
  /\ UNCHANGED <<schedVars, connVars, taskVars, queueVars, pipeVars, loc, intakeVars, now,
                 ncmds, histVars>>

\* rag_context = await query_documents(all_transcriptions, lecture_id, top_k=15)
FinalQuery(h) ==
  /\ pc[H(h)] = "f_query"
  /\ Sync
  /\ \E o \in {"ok", "raise"} :
       /\ Injects(o # "ok")
       /\ pc' = [pc EXCEPT ![H(h)] = IF o = "ok" THEN "f_synth" ELSE "f_err"]
  /\ UNCHANGED <<schedVars, connVars, taskVars, queueVars, pipeVars, loc, intakeVars, now,
                 ncmds, lastPush, saved>>

\* final_result = await synthesize_final_notes(...): it raises, or returns
\* success False (logged, nothing is sent), or returns success True
FinalCall(h) ==
  /\ pc[H(h)] = "f_synth"
  /\ Sync
  /\ \E o \in {"success", "failure", "raise"} :
       /\ Injects(o # "success")
       /\ CASE o = "success" -> /\ pc' = [pc EXCEPT ![H(h)] = "f_save"]
                                /\ UNCHANGED loc
            [] o = "failure" -> FinalReturn(h)
            [] o = "raise" -> /\ pc' = [pc EXCEPT ![H(h)] = "f_err"]
                              /\ UNCHANGED loc
  /\ UNCHANGED <<schedVars, connVars, taskVars, queueVars, pipeVars, intakeVars, now, ncmds,
                 lastPush, saved>>

\* await save_final_notes(...): a failure is caught and logged
FinalSave(h) ==
  /\ pc[H(h)] = "f_save"
  /\ Sync
  /\ \E o \in {"ok", "fail"} : Injects(o # "ok")
  /\ pc' = [pc EXCEPT ![H(h)] = "f_notes"]
  /\ UNCHANGED <<schedVars, connVars, taskVars, queueVars, pipeVars, loc, intakeVars, now,
                 ncmds, lastPush, saved>>

\* faulty variant of FinalNotes: the final synthesis consumes the buffer
FinalNotesConsumes(h) ==
  /\ pc[H(h)] = "f_notes"
  /\ Sync
  /\ \E o \in SendOutcomes(h) :
       /\ Push("final_notes", h, o, 0)
       /\ IF o = "raise"
            THEN /\ pc' = [pc EXCEPT ![H(h)] = "f_err"]
                 /\ UNCHANGED loc
            ELSE FinalReturn(h)
  /\ transcription_buffers' = <<>>
  /\ UNCHANGED <<schedVars, connVars, taskVars, queueVars, last_synthesis_time,
                 structured_notes_history, lastAppended, intakeVars, now, ncmds, histVars>>

\* await websocket.send_json({"type": "final_notes"})
FinalNotes(h) ==
  /\ pc[H(h)] = "f_notes"
  /\ Sync
  /\ \E o \in SendOutcomes(h) :
       /\ Push("final_notes", h, o, 0)
       /\ IF o = "raise"
            THEN /\ pc' = [pc EXCEPT ![H(h)] = "f_err"]
                 /\ UNCHANGED loc
            ELSE FinalReturn(h)
  /\ UNCHANGED <<schedVars, connVars, taskVars, queueVars, pipeVars, intakeVars, now, ncmds,
                 histVars>>

\* except Exception: await websocket.send_json({"type": "final_synthesis_error"})
FinalErr(h) ==
  /\ pc[H(h)] = "f_err"
  /\ Sync
  /\ \E o \in SendOutcomes(h) :
       /\ Push("final_synthesis_error", h, o, 0)
       /\ IF o = "raise"
            THEN \E exc \in SendExceptions : HandlerRaise(h, exc)
            ELSE /\ FinalReturn(h)
                 /\ UNCHANGED active_connections
  /\ UNCHANGED <<schedVars, wsState, taskVars, queueVars, pipeVars, intakeVars, now, ncmds,
                 histVars>>

\* ----------------------- segment intake ----------------------------

\* faulty variant of HasTransport: the lookup is not checked
AnyTransport(conn) == TRUE

\* receive_audio_chunk: look the lecture's websocket up; without one the
\* request is answered with an error and process_audio_chunk is not called
HasTransport(conn) == conn # 0

\* receive_audio_chunk up to its first suspension.  With a websocket
\* registered it calls process_audio_chunk, which opens the chunk's file in the
\* temp directory and suspends in `await audio_file.read()`; when the file
\* cannot be opened the exception is caught before any await and the request
\* is answered with an error at once.
ReceiveAudioChunk ==
  /\ Sync
  /\ nextSeg <= MaxSegs
  /\ nextSeg' = nextSeg + 1
  /\ IF HasTransport(active_connections)
       THEN \E o \in {"opened", "open_error"} :
              /\ Injects(o # "opened")
              /\ IF o = "opened"
                   THEN /\ inflight' =
                             inflight \cup {[seg |-> nextSeg, ws |-> active_connections]}
                        /\ UNCHANGED response
                   ELSE /\ response' = [status |-> "error", seg |-> nextSeg, queue_size |-> 0]
                        /\ UNCHANGED inflight
       ELSE /\ response' = [status |-> "no_websocket", seg |-> nextSeg, queue_size |-> 0]
            /\ UNCHANGED <<inflight, nfaults>>
  /\ UNCHANGED <<schedVars, connVars, taskVars, queueVars, pipeVars, pc, loc, now, ncmds,
                 lastPush, saved>>

\* asyncio.Queue.put on the unbounded queue
QueuePut(q, item) == Append(q, item)

\* Queue._wakeup_next: the first worker suspended in get() on queue object q
\* is scheduled to wake up, after the wake-ups in `rdy`
WakeNext(q, rdy) ==
  IF GettersOn(q) = <<>>
    THEN /\ ready' = rdy
         /\ UNCHANGED <<getters, loc>>
    ELSE LET g == Head(GettersOn(q)) IN
         /\ ready' = Append(rdy, W(g))
         /\ getters' = Without(getters, g)
         /\ loc' = [loc EXCEPT ![W(g)].woken = TRUE]

\* process_audio_chunk after `await audio_file.read()`: the chunk is written
\* to the open file and put on the queue registered now, and the queue size
\* is returned; an exception (the upload cannot be read, the file cannot be
\* written) is answered with an error and nothing is put
ProcessAudioChunk(chunk) ==
  /\ Sync
  /\ chunk \in inflight
  /\ inflight' = inflight \ {chunk}
  /\ \E o \in {"ok", "io_error"} :
       /\ Injects(o # "ok")
       /\ IF o = "ok"
            THEN /\ queues' = [queues EXCEPT ![audio_queues] = QueuePut(@, chunk)]
                 /\ response' = [status |-> "queued", seg |-> chunk.seg,
                                 queue_size |-> Len(queues'[audio_queues])]
                 /\ WakeNext(audio_queues, ready)
            ELSE /\ response' = [status |-> "error", seg |-> chunk.seg, queue_size |-> 0]
                 /\ UNCHANGED <<queues, schedVars, loc>>
  /\ UNCHANGED <<connVars, taskVars, audio_queues, deq, stale, pipeVars, pc, nextSeg,
                 now, ncmds, lastPush, saved>>

\* ----------------------- process_lecture_audio ---------------------

\* what asyncio.Queue.get leaves in the queue
QueueRest(q) == Tail(q)

\* faulty variant of NoSpeech: the text is not stripped
NoSpeechUnstripped(text) == text = ""

\* `if not transcription_text`: the chunk is skipped
NoSpeech(text) == Strip(text) = ""

\* faulty variant of Skips: an exception of the transcriber does not skip
\* the chunk
SkipsOnlySilence(r) == Strip(r) = ""

\* the two `continue`s after transcribe_local: it raised, or the text is empty
Skips(r) == r = "raise" \/ NoSpeech(r)

\* chunk_data = await queue.get() returned an item of queue object q. The
\* worker transcribes it (a synchronous call); on an exception or an empty
\* text it `continue`s, else it appends the fragment to the buffer and awaits
\* query_documents.  loc.text keeps what transcribe_local did.
WorkerTake(w, q) ==
  LET chunk_data == Head(queues[q]) IN
  /\ queues' = [queues EXCEPT ![q] = QueueRest(@)]
  /\ deq' = [deq EXCEPT ![chunk_data.seg] = @ + 1]
  /\ \E r \in TranscribeResults :
       IF Skips(r)
         THEN /\ Injects(TRUE)
              /\ pc' = [pc EXCEPT ![W(w)] = "top"]
              /\ loc' = [loc EXCEPT ![W(w)] = [NoLoc EXCEPT !.text = r]]
              /\ UNCHANGED <<transcription_buffers, lastAppended>>
         ELSE /\ transcription_buffers' = Append(transcription_buffers, chunk_data.seg)
              /\ lastAppended' = chunk_data.seg
              /\ pc' = [pc EXCEPT ![W(w)] = "query"]
              /\ loc' = [loc EXCEPT ![W(w)] = [NoLoc EXCEPT !.ws = chunk_data.ws,
                                                            !.seg = chunk_data.seg,
                                                            !.text = r]]
              /\ Injects(FALSE)
  /\ UNCHANGED <<connVars, taskVars, audio_queues, stale, last_synthesis_time,
                 structured_notes_history, intakeVars, now, ncmds, lastPush, saved>>

\* get() on an empty queue: the worker joins the queue's getters and suspends
WorkerWaits(w, q) ==
  /\ pc' = [pc EXCEPT ![W(w)] = "get"]
  /\ loc' = [loc EXCEPT ![W(w)] = [NoLoc EXCEPT !.q = q]]
  /\ getters' = Append(getters, w)
  /\ UNCHANGED <<connVars, taskVars, queueVars, pipeVars, intakeVars, now, ncmds, lastPush,
                 histVars>>

\* The task's first step, or its return to `while True`: it evaluates
\* self.audio_queues[lecture_id] and calls get() on that object, which returns
\* at once when an item is there and suspends otherwise.
WorkerTop(w) ==
  /\ \/ pc[W(w)] = "top" /\ ready' = ready
     \/ pc[W(w)] = "start" /\ Runs(W(w)) /\ Sync /\ w \notin cancelReq /\ ready' = Tail(ready)
  /\ IF queues[audio_queues] = <<>>
       THEN WorkerWaits(w, audio_queues)
       ELSE WorkerTake(w, audio_queues) /\ UNCHANGED getters

\* A worker suspended in get() wakes up because an item was put on the queue
\* object it waits on (which need no longer be the registered one): it takes
\* the item, or waits again when the item is gone.
WorkerWake(w) ==
  /\ pc[W(w)] = "get"
  /\ Runs(W(w))
  /\ Sync
  /\ w \notin cancelReq
  /\ ready' = Tail(ready)
  /\ IF queues[loc[W(w)].q] = <<>>
       THEN WorkerWaits(w, loc[W(w)].q)
       ELSE WorkerTake(w, loc[W(w)].q) /\ UNCHANGED getters

\* the wake-ups scheduled once task t has woken up: t's own wake-up is taken
\* off when it was a scheduled one
AfterWake(t) == IF Runs(t) THEN Tail(ready) ELSE ready

\* Task.cancel() is delivered at the task's wake-up: a scheduled wake-up in
\* its turn, the wake-up of a call that had completed when cancel() was called
\* whenever that completion arrives.  CancelledError is thrown at the await the
\* task is suspended at, logged by `except asyncio.CancelledError` and
\* re-raised; the handlers awaiting the task are scheduled.  A get() that had
\* been woken for an item passes the wake-up on to the next getter
\* (Queue.get's except clause) before the exception leaves it.
TaskCancelled(w) ==
  /\ Runs(W(w)) \/ ~Scheduled(W(w))
  /\ Sync
  /\ w \in cancelReq
  /\ pc' = [pc EXCEPT ![W(w)] = "cancelled"]
  /\ cancelReq' = cancelReq \ {w}
  /\ IF loc[W(w)].woken /\ queues[loc[W(w)].q] # <<>> /\ GettersOn(loc[W(w)].q) # <<>>
       THEN LET g == Head(GettersOn(loc[W(w)].q)) IN
            /\ ready' = Append(AfterWake(W(w)), W(g)) \o WakeWaiters(w)
            /\ getters' = Without(getters, g)
            /\ loc' = [loc EXCEPT ![W(w)] = NoLoc, ![W(g)].woken = TRUE]
       ELSE /\ ready' = AfterWake(W(w)) \o WakeWaiters(w)
            /\ loc' = [loc EXCEPT ![W(w)] = NoLoc]
            /\ UNCHANGED getters
  /\ UNCHANGED <<connVars, processing_tasks, queueVars, pipeVars, intakeVars, now, ncmds,
                 lastPush, histVars>>

\* An exception reaches `except Exception` of process_lecture_audio: it is
\* logged and the task ends; the handlers awaiting the task are scheduled.
WorkerFault(w) ==
  /\ pc' = [pc EXCEPT ![W(w)] = "faulted"]
  /\ loc' = [loc EXCEPT ![W(w)] = NoLoc]
  /\ ready' = ready \o WakeWaiters(w)

WorkerRuns(w, at) == pc[W(w)] = at /\ Sync /\ w \notin cancelReq

\* rag_context = await query_documents(transcription_text, lecture_id, top_k=5)
WorkerQuery(w) ==
  /\ WorkerRuns(w, "query")
  /\ \E o \in {"ok", "raise"} :
       /\ Injects(o # "ok")
       /\ IF o = "ok"
            THEN /\ pc' = [pc EXCEPT ![W(w)] = "enrich"]
                 /\ UNCHANGED <<loc, ready>>
            ELSE WorkerFault(w)
  /\ UNCHANGED <<connVars, taskVars, getters, queueVars, pipeVars, intakeVars, now, ncmds,
                 lastPush, saved>>

\* chunk_index = len(self.transcription_buffers[lecture_id]) - 1
ChunkIndex(buffer) == Len(buffer) - 1

\* enhanced_notes = await generate_raw_notes(...), then chunk_index is taken
\* and score_importance is called (synchronously); either call can raise
WorkerEnrich(w) ==
  /\ WorkerRuns(w, "enrich")
  /\ \E o \in {"ok", "enrich_raise", "score_raise"} :
       /\ Injects(o # "ok")
       /\ IF o = "ok"
            THEN /\ pc' = [pc EXCEPT ![W(w)] = "save"]
                 /\ loc' = [loc EXCEPT ![W(w)].idx = ChunkIndex(transcription_buffers)]
                 /\ UNCHANGED ready
            ELSE WorkerFault(w)
  /\ UNCHANGED <<connVars, taskVars, getters, queueVars, pipeVars, intakeVars, now, ncmds,
                 lastPush, saved>>

\* "chunk_number": len(self.transcription_buffers[lecture_id])
ChunkNumber(buffer) == Len(buffer)

\* faulty variant of WorkerSave: a failure to save ends the worker
WorkerSaveFatal(w) ==
  /\ WorkerRuns(w, "save")
  /\ \E o \in {"ok", "fail"} :
       /\ Injects(o # "ok")
       /\ IF o = "ok"
            THEN /\ saved' = saved \cup {<<loc[W(w)].idx, loc[W(w)].seg>>}
                 /\ pc' = [pc EXCEPT ![W(w)] = "send"]
                 /\ loc' = [loc EXCEPT ![W(w)].num = ChunkNumber(transcription_buffers)]
                 /\ UNCHANGED ready
            ELSE /\ WorkerFault(w)
                 /\ UNCHANGED saved
  /\ UNCHANGED <<getters, connVars, taskVars, queueVars, pipeVars, intakeVars, now, ncmds,
                 lastPush>>

\* await save_transcription(...): a failure is caught and logged; then the
\* transcription event is built and sent
WorkerSave(w) ==
  /\ WorkerRuns(w, "save")
  /\ \E o \in {"ok", "fail"} :
       /\ Injects(o # "ok")
       /\ saved' = IF o = "ok" THEN saved \cup {<<loc[W(w)].idx, loc[W(w)].seg>>} ELSE saved
  /\ pc' = [pc EXCEPT ![W(w)] = "send"]
  /\ loc' = [loc EXCEPT ![W(w)].num = ChunkNumber(transcription_buffers)]
  /\ UNCHANGED <<schedVars, connVars, taskVars, queueVars, pipeVars, intakeVars, now, ncmds,
                 lastPush>>

\* faulty variant of TimeTrigger: the interval must be exceeded, not reached
TriggerPastInterval(buffer_size, current_time, last_synthesis) ==
  /\ buffer_size >= MinBufferSize
  /\ (current_time - last_synthesis > SynthesisInterval \/ last_synthesis = 0)

\* if buffer_size >= 3: if time_since_last >= 60 or last_synthesis == 0
TimeTrigger(buffer_size, current_time, last_synthesis) ==
  /\ buffer_size >= MinBufferSize
  /\ (current_time - last_synthesis >= SynthesisInterval \/ last_synthesis = 0)

\* the else branch of the inner if: detect_topic_shift is called
ConsultsDetector(buffer_size, current_time, last_synthesis) ==
  /\ buffer_size >= MinBufferSize
  /\ ~(current_time - last_synthesis >= SynthesisInterval \/ last_synthesis = 0)

\* recent_transcriptions = [... transcription_buffers[lecture_id][-3:]]
RecentTranscriptions(buffer) == LastN(buffer, WindowSize)

\* the arguments of detect_topic_shift: recent[-1] and recent[:-1]
DetectorArgs(recent) == <<recent[Len(recent)], ButLast(recent)>>

\* `await self.synthesize_notes(lecture_id, websocket)` in the worker
WorkerSynthesize(w, l) ==
  IF SynthWindow(transcription_buffers) = <<>>
    THEN /\ pc' = [pc EXCEPT ![W(w)] = "top"]
         /\ loc' = [loc EXCEPT ![W(w)] = NoLoc]
    ELSE /\ pc' = [pc EXCEPT ![W(w)] = "s_query"]
         /\ loc' = [loc EXCEPT ![W(w)] = [l EXCEPT !.window = SynthWindow(transcription_buffers),
                                                   !.should_synthesize = TRUE]]

\* await websocket.send_json({"type": "transcription"}) on the websocket the
\* chunk was received under; then current_time = time.time() and the trigger is
\* evaluated
WorkerSend(w, current_time) ==
  /\ WorkerRuns(w, "send")
  /\ current_time \in TimeReads
  /\ \E o \in SendOutcomes(loc[W(w)].ws) :
       /\ Push("transcription", loc[W(w)].ws, o, loc[W(w)].num)
       /\ IF o = "raise"
            THEN /\ WorkerFault(w)
                 /\ UNCHANGED now
            ELSE   /\ now' = current_time
                   /\ UNCHANGED ready
                   /\ IF TimeTrigger(Len(transcription_buffers), current_time,
                                     last_synthesis_time)
                        THEN WorkerSynthesize(w, loc[W(w)])
                        ELSE IF ConsultsDetector(Len(transcription_buffers), current_time,
                                                 last_synthesis_time)
                          THEN /\ pc' = [pc EXCEPT ![W(w)] = "shift"]
                               /\ loc' = [loc EXCEPT ![W(w)].recent =
                                            RecentTranscriptions(transcription_buffers)]
                          ELSE /\ pc' = [pc EXCEPT ![W(w)] = "top"]
                               /\ loc' = [loc EXCEPT ![W(w)] = NoLoc]
  /\ UNCHANGED <<connVars, taskVars, getters, queueVars, pipeVars, intakeVars, ncmds, saved,
                 nfaults>>

\* faulty variant of ShiftTriggers: the detector's answer is ignored
AlwaysTriggers(topic_shift) == TRUE

\* if topic_shift: should_synthesize = True
ShiftTriggers(topic_shift) == topic_shift

\* topic_shift = await detect_topic_shift(recent[-1], recent[:-1])
DetectorResults == {"true", "false", "raise"}

WorkerShift(w, o) ==
  /\ WorkerRuns(w, "shift")
  /\ Injects(o = "raise")
  /\ IF o = "raise"
       THEN WorkerFault(w)
       ELSE /\ UNCHANGED ready
            /\ IF ShiftTriggers(o = "true")
                 THEN WorkerSynthesize(w, [loc[W(w)] EXCEPT !.topic_shift = (o = "true")])
                 ELSE /\ pc' = [pc EXCEPT ![W(w)] = "top"]
                      /\ loc' = [loc EXCEPT ![W(w)] =
                                   [NoLoc EXCEPT !.topic_shift = (o = "true")]]
  /\ UNCHANGED <<connVars, taskVars, getters, queueVars, pipeVars, intakeVars, now, ncmds,
                 lastPush, saved>>

\* ----------------------- the program -------------------------------

Next ==
  \/ \E h \in Conns : Connect(h)
  \/ \E h \in Conns : Resume(h)
  \/ \E h \in Conns : ClientClose(h)
  \/ \E h \in Conns : HandlerConfirm(h)
  \/ \E h \in Conns : HandlerDisconnect(h)
  \/ \E h \in Conns, m \in Commands : HandlerCommand(h, m)
  \/ \E h \in Conns : HandlerAckStart(h)
  \/ \E h \in Conns : HandlerSleep(h)
  \/ \E h \in Conns : HandlerStopped(h)
  \/ \E t \in Tasks : SynthQuery(t)
  \/ \E t \in Tasks : SynthStarted(t)
  \/ \E t \in Tasks : SynthCall(t)
  \/ \E t \in Tasks : SynthSave(t)
  \/ \E t \in Tasks : SynthNotes(t)
  \/ \E t \in Tasks : SynthErr(t)
  \/ \E h \in Conns : FinalStarted(h)
  \/ \E h \in Conns : FinalQuery(h)
  \/ \E h \in Conns : FinalCall(h)
  \/ \E h \in Conns : FinalSave(h)
  \/ \E h \in Conns : FinalNotes(h)
  \/ \E h \in Conns : FinalErr(h)
  \/ ReceiveAudioChunk
  \/ \E chunk \in inflight : ProcessAudioChunk(chunk)
  \/ \E w \in Conns : WorkerTop(w)
  \/ \E w \in Conns : WorkerWake(w)
  \/ \E w \in Conns : TaskCancelled(w)
  \/ \E w \in Conns : WorkerQuery(w)
  \/ \E w \in Conns : WorkerEnrich(w)
  \/ \E w \in Conns : WorkerSave(w)
  \/ \E w \in Conns, tm \in Clock : WorkerSend(w, tm)
  \/ \E w \in Conns, o \in DetectorResults : WorkerShift(w, o)

Spec == Init /\ [][Next]_vars


\* ----------------------- environments ------------------------------
\* The specifications below are Spec with the environment restricted: each
\* step is a step of Next, taken only when the environment allows it, so each
\* of their behaviours is a behaviour of Spec.

Calm == nfaults' = nfaults      \* no collaborator call fails in this step
Still == now' = now             \* the clock does not advance in this step

\* A chunk is submitted only when the previous ones have been dealt with:
\* none is between lookup and put, and every worker is finished or suspended
\* in get() on an empty queue.
WorkerIdle(w) ==
  \/ pc[W(w)] \in {"none", "cancelled", "faulted"}
  \/ pc[W(w)] = "get" /\ queues[loc[W(w)].q] = <<>>
Paced == inflight = {} /\ \A w \in Conns : WorkerIdle(w)

\* -- reconnection: connections come and go while a few chunks arrive; no
\* -- control messages, no collaborator failures, a clock that stands still
ReconnectSegs == 1     \* chunks submitted
ReconnectLoad == 5     \* connections + disconnections + chunks, together

NextReconnect ==
  \/ \E h \in Conns : Load < ReconnectLoad /\ Connect(h)
  \/ \E h \in Conns : Resume(h)
  \/ \E h \in Conns : Load < ReconnectLoad /\ ClientClose(h)
  \/ \E h \in Conns : HandlerConfirm(h)
  \/ \E h \in Conns : HandlerDisconnect(h)
  \/ Load < ReconnectLoad /\ nextSeg <= ReconnectSegs /\ ReceiveAudioChunk /\ Calm
  \/ \E chunk \in inflight : ProcessAudioChunk(chunk) /\ Calm
  \/ \E w \in Conns : WorkerTop(w) /\ Calm
  \/ \E w \in Conns : WorkerWake(w) /\ Calm
  \/ \E w \in Conns : TaskCancelled(w)
  \/ \E w \in Conns : WorkerQuery(w) /\ Calm
  \/ \E w \in Conns : WorkerEnrich(w) /\ Calm
  \/ \E w \in Conns : WorkerSave(w) /\ Calm
  \/ \E w \in Conns : WorkerSend(w, now)

SpecReconnect == Init /\ [][NextReconnect]_vars

\* -- the pipeline: one connection that stays open, chunks submitted one
\* -- after the other, a free clock, at most MaxFaults collaborator failures;
\* -- no control messages
NextPipeline ==
  \/ Connect(1)
  \/ HandlerConfirm(1)
  \/ Paced /\ ReceiveAudioChunk
  \/ \E chunk \in inflight : ProcessAudioChunk(chunk)
  \/ WorkerTop(1)
  \/ WorkerWake(1)
  \/ WorkerQuery(1)
  \/ WorkerEnrich(1)
  \/ WorkerSave(1)
  \/ \E tm \in Clock : WorkerSend(1, tm)
  \/ \E o \in DetectorResults : WorkerShift(1, o)
  \/ SynthQuery(W(1))
  \/ SynthStarted(W(1))
  \/ SynthCall(W(1))
  \/ SynthSave(W(1))
  \/ SynthNotes(W(1))
  \/ SynthErr(W(1))

SpecPipeline == Init /\ [][NextPipeline]_vars
\* -- the end-to-end scenario: one connection that stays open, four chunks
\* -- submitted over it and queued in the order they are submitted, every
\* -- one transcribed to text, no collaborator failure, and the trigger
\* -- evaluated for the k-th chunk at ScenarioAt[k] seconds from the start of
\* -- the lecture (the detector is never reached)
ScenarioTime(seg) == Epoch + ScenarioAt[seg]

NextScenario ==
  \/ Connect(1)
  \/ HandlerConfirm(1)
  \/ /\ active_connections # 0
     /\ inflight = {}
     /\ nextSeg <= Len(ScenarioAt)
     /\ ReceiveAudioChunk
     /\ Calm
  \/ \E chunk \in inflight : ProcessAudioChunk(chunk) /\ Calm
  \/ WorkerTop(1) /\ Calm
  \/ WorkerWake(1) /\ Calm
  \/ WorkerQuery(1) /\ Calm
  \/ WorkerEnrich(1) /\ Calm
  \/ WorkerSave(1) /\ Calm
  \/ WorkerSend(1, ScenarioTime(loc[W(1)].seg))
  \/ SynthQuery(W(1)) /\ Calm
  \/ SynthStarted(W(1))
  \/ SynthCall(W(1)) /\ Calm
  \/ SynthSave(W(1)) /\ Calm
  \/ SynthNotes(W(1))

SpecScenario == Init /\ [][NextScenario]_vars

\* -- control messages: one connection that stays open, chunks submitted one
\* -- after the other and transcribed, enriched and saved without failure,
\* -- control messages at any time, a clock that stands still, at most
\* -- MaxFaults failures of the synthesis collaborators
ControlSegs == 3       \* chunks submitted

NextControl ==
  \/ Connect(1)
  \/ HandlerConfirm(1)
  \/ \E m \in Commands : HandlerCommand(1, m)
  \/ HandlerAckStart(1)
  \/ HandlerSleep(1)
  \/ HandlerStopped(1)
  \/ \E t \in {H(1), W(1)} : SynthQuery(t)
  \/ \E t \in {H(1), W(1)} : SynthStarted(t)
  \/ \E t \in {H(1), W(1)} : SynthCall(t)
  \/ \E t \in {H(1), W(1)} : SynthSave(t)
  \/ \E t \in {H(1), W(1)} : SynthNotes(t) /\ Still
  \/ \E t \in {H(1), W(1)} : SynthErr(t)
  \/ FinalStarted(1)
  \/ FinalQuery(1)
  \/ FinalCall(1)
  \/ FinalSave(1)
  \/ FinalNotes(1)
  \/ FinalErr(1)
  \/ Paced /\ nextSeg <= ControlSegs /\ ReceiveAudioChunk /\ Calm
  \/ \E chunk \in inflight : ProcessAudioChunk(chunk) /\ Calm
  \/ WorkerTop(1) /\ Calm
  \/ WorkerWake(1) /\ Calm
  \/ WorkerQuery(1) /\ Calm
  \/ WorkerEnrich(1) /\ Calm
  \/ WorkerSave(1) /\ Calm
  \/ WorkerSend(1, now)
  \/ \E o \in DetectorResults : WorkerShift(1, o)

SpecControl == Init /\ [][NextControl]_vars

\* -- a backlog: one connection that stays open, chunks submitted at any
\* -- time, so that several are queued while the worker is busy, a clock that
\* -- stands still, at most MaxFaults collaborator failures; no control
\* -- messages (with so few chunks the detector is not reached)
BacklogSegs == 3       \* chunks submitted

NextBacklog ==
  \/ Connect(1)
  \/ HandlerConfirm(1)
  \/ nextSeg <= BacklogSegs /\ ReceiveAudioChunk
  \/ \E chunk \in inflight : ProcessAudioChunk(chunk)
  \/ WorkerTop(1)
  \/ WorkerWake(1)
  \/ WorkerQuery(1)
  \/ WorkerEnrich(1)
  \/ WorkerSave(1)
  \/ WorkerSend(1, now)
  \/ SynthQuery(W(1))
  \/ SynthStarted(W(1))
  \/ SynthCall(W(1))
  \/ SynthSave(W(1))
  \/ SynthNotes(W(1)) /\ Still
  \/ SynthErr(W(1))

SpecBacklog == Init /\ [][NextBacklog]_vars

\* -- a client that goes away: one connection, chunks submitted one after the
\* -- other, the client side closing at any time, no collaborator failure, a
\* -- clock that stands still; no control messages and no reconnection
DetachSegs == 3        \* chunks submitted

NextDetach ==
  \/ Connect(1)
  \/ HandlerConfirm(1)
  \/ ClientClose(1)
  \/ HandlerDisconnect(1)
  \/ Paced /\ nextSeg <= DetachSegs /\ ReceiveAudioChunk /\ Calm
  \/ \E chunk \in inflight : ProcessAudioChunk(chunk) /\ Calm
  \/ WorkerTop(1) /\ Calm
  \/ WorkerWake(1) /\ Calm
  \/ WorkerQuery(1) /\ Calm
  \/ WorkerEnrich(1) /\ Calm
  \/ WorkerSave(1) /\ Calm
  \/ WorkerSend(1, now)
  \/ SynthQuery(W(1)) /\ Calm
  \/ SynthStarted(W(1))
  \/ SynthCall(W(1)) /\ Calm
  \/ SynthSave(W(1)) /\ Calm
  \/ SynthNotes(W(1)) /\ Still
  \/ SynthErr(W(1))

SpecDetach == Init /\ [][NextDetach]_vars

\* -- a session over several connections: the client goes away and comes
\* -- back while chunks are submitted one after the other and control
\* -- messages (stop_recording, request_final_synthesis) arrive on whichever
\* -- connection is open; a clock that stands still, no collaborator failure
\* -- (a push to a connection whose client is gone can still raise); with so
\* -- few chunks every round is one of stop_recording
SessionConns == 2      \* connections opened
SessionSegs == 2       \* chunks submitted
SessionLoad == 6       \* connections + disconnections + chunks + control messages, together

NextSession ==
  \/ \E h \in Conns : Load < SessionLoad /\ h <= SessionConns /\ Connect(h)
  \/ \E h \in Conns : Resume(h)
  \/ \E h \in Conns : Load < SessionLoad /\ ClientClose(h)
  \/ \E h \in Conns : HandlerConfirm(h)
  \/ \E h \in Conns : HandlerDisconnect(h)
  \/ \E h \in Conns, m \in {"stop_recording", "request_final_synthesis"} :
       Load < SessionLoad /\ HandlerCommand(h, m)
  \/ \E h \in Conns : HandlerSleep(h)
  \/ \E h \in Conns : HandlerStopped(h)
  \/ \E t \in Tasks : SynthQuery(t) /\ Calm
  \/ \E t \in Tasks : SynthStarted(t)
  \/ \E t \in Tasks : SynthCall(t) /\ Calm
  \/ \E t \in Tasks : SynthSave(t) /\ Calm
  \/ \E t \in Tasks : SynthNotes(t) /\ Still
  \/ \E t \in Tasks : SynthErr(t)
  \/ \E h \in Conns : FinalStarted(h)
  \/ \E h \in Conns : FinalQuery(h) /\ Calm
  \/ \E h \in Conns : FinalCall(h) /\ Calm
  \/ \E h \in Conns : FinalSave(h) /\ Calm
  \/ \E h \in Conns : FinalNotes(h)
  \/ \E h \in Conns : FinalErr(h)
  \/ Load < SessionLoad /\ Paced /\ nextSeg <= SessionSegs /\ ReceiveAudioChunk /\ Calm
  \/ \E chunk \in inflight : ProcessAudioChunk(chunk) /\ Calm
  \/ \E w \in Conns : WorkerTop(w) /\ Calm
  \/ \E w \in Conns : WorkerWake(w) /\ Calm
  \/ \E w \in Conns : TaskCancelled(w)
  \/ \E w \in Conns : WorkerQuery(w) /\ Calm
  \/ \E w \in Conns : WorkerEnrich(w) /\ Calm
  \/ \E w \in Conns : WorkerSave(w) /\ Calm
  \/ \E w \in Conns : WorkerSend(w, now)

SpecSession == Init /\ [][NextSession]_vars

\* ----------------------- properties --------------------------------

\* a worker that can take chunks off a queue: alive, with no cancellation
\* waiting to be delivered
Draining(w) == Alive(w) /\ w \notin cancelReq

\* C1: whatever the interleaving of connects, overlapping reconnects and
\* disconnects, at most one worker task of the lecture is alive and able to
\* dequeue at any instant.
C1_OneWorker == Cardinality({w \in Conns : Draining(w)}) <= 1

\* C2: every accepted chunk is taken off a queue at most once, and a chunk
\* that was still pending when a reconnect replaced the queue is never taken
\* by any worker.
C2_AtMostOnce ==
  /\ \A s \in Segs : deq[s] <= 1
  /\ \A s \in stale : deq[s] = 0

\* the step in which receive_audio_chunk handles chunk number nextSeg
Submitted == nextSeg' = nextSeg + 1

\* C3 as stated: a chunk submitted with no transport attached is answered
\* with the no-websocket error and nothing is enqueued; a chunk submitted with
\* a transport attached is put on the queue, exactly once, and the queue depth
\* is returned.
C3_Original ==
  [][/\ (Submitted /\ active_connections = 0) =>
          /\ response' = [status |-> "no_websocket", seg |-> nextSeg, queue_size |-> 0]
          /\ queues' = queues
          /\ inflight' = inflight
     /\ (Submitted /\ active_connections # 0) =>
          /\ inflight' = inflight \cup {[seg |-> nextSeg, ws |-> active_connections]}
          /\ queues' = queues
     /\ \A c \in inflight : c \notin inflight' =>
          /\ queues' = [queues EXCEPT ![audio_queues] = Append(@, c)]
          /\ response' = [status |-> "queued", seg |-> c.seg,
                          queue_size |-> Len(queues[audio_queues]) + 1]
    ]_vars

\* C3: a chunk submitted with no transport attached is answered with the
\* no-websocket error and nothing is enqueued; a chunk submitted with a
\* transport attached is put on the queue, exactly once, and the queue depth
\* is returned, unless storing the chunk raises: then an error is returned
\* and nothing is enqueued.
C3_Intake ==
  [][/\ (Submitted /\ active_connections = 0) =>
          /\ response' = [status |-> "no_websocket", seg |-> nextSeg, queue_size |-> 0]
          /\ queues' = queues
          /\ inflight' = inflight
     /\ (Submitted /\ active_connections # 0) =>
          /\ queues' = queues
          /\ \/ inflight' = inflight \cup {[seg |-> nextSeg, ws |-> active_connections]}
             \/ /\ inflight' = inflight
                /\ response' = [status |-> "error", seg |-> nextSeg, queue_size |-> 0]
     /\ \A c \in inflight : c \notin inflight' =>
          \/ /\ queues' = [queues EXCEPT ![audio_queues] = Append(@, c)]
             /\ response' = [status |-> "queued", seg |-> c.seg,
                             queue_size |-> Len(queues[audio_queues]) + 1]
          \/ /\ queues' = queues
             /\ response' = [status |-> "error", seg |-> c.seg, queue_size |-> 0]
    ]_vars

\* a chunk was refused for want of a transport, and a later one, submitted
\* with the transport attached, could not be stored
C3_Witness ==
  /\ response.status = "error"
  /\ active_connections # 0
  /\ response.seg > 1
  /\ \A q \in 0..MaxConns : queues[q] = <<>>
  /\ \A s \in Segs : deq[s] = 0

\* C4: with the only connection gone and no reconnect, a transcription event
\* the worker pushes while no transport is attached is dropped and the worker
\* goes on running.
C4_DetachedPush ==
  [][(/\ pc[W(1)] = "send"
      /\ pc'[W(1)] # "send"
      /\ active_connections = 0
      /\ \A c \in Conns : c > 1 => wsState[c] = "new")
       => pc'[W(1)] # "faulted"]_vars

\* the step in which worker w, having sent the transcription event, reads the
\* clock and evaluates the trigger
Evaluates(w) == pc[W(w)] = "send" /\ pc'[W(w)] \notin {"send", "faulted", "cancelled"}

\* C5: when the trigger is evaluated for an appended fragment with 3 or more
\* fragments in the buffer and 60 seconds or more since the last successful
\* synthesis, or no successful synthesis yet, the worker starts a synthesis
\* round for that fragment over the last three fragments without consulting
\* the detector; and the evaluation starts a round directly in no other case.
C5_ForcedFire ==
  [][\A w \in Conns : Evaluates(w) =>
       LET n == Len(transcription_buffers)
           forced == /\ n >= 3
                     /\ \/ now' - last_synthesis_time >= 60
                        \/ last_synthesis_time = 0
       IN /\ forced => /\ pc'[W(w)] = "s_query"
                       /\ loc'[W(w)].seg = lastAppended
                       /\ loc'[W(w)].window = SubSeq(transcription_buffers, n - 2, n)
          /\ pc'[W(w)] = "s_query" => forced
    ]_vars

\* a round started by the time trigger a minute or more after a successful one
C5_Witness ==
  /\ pc[W(1)] = "s_query"
  /\ ~loc[W(1)].topic_shift
  /\ last_synthesis_time # 0
  /\ now - last_synthesis_time >= 60
  /\ Len(loc[W(1)].window) = 3

\* C6: when a synthesis has succeeded and less than 60 seconds have passed
\* since, evaluating the trigger starts no round by itself; with 3 or more
\* fragments the detector is called with the latest fragment and the two
\* before it, and a round starts if and only if the detector answers true.
C6_TopicShift ==
  [][\A w \in Conns :
       LET n == Len(transcription_buffers) IN
       /\ (/\ Evaluates(w)
           /\ last_synthesis_time # 0
           /\ now' - last_synthesis_time < 60) =>
             /\ pc'[W(w)] # "s_query"
             /\ n >= 3 =>
                  /\ pc'[W(w)] = "shift"
                  /\ DetectorArgs(loc'[W(w)].recent) =
                       <<transcription_buffers[n],
                         <<transcription_buffers[n - 2], transcription_buffers[n - 1]>> >>
             /\ n < 3 => pc'[W(w)] = "top"
       /\ (pc[W(w)] = "shift" /\ pc'[W(w)] \notin {"shift", "faulted", "cancelled"}) =>
             (pc'[W(w)] = "s_query" <=> loc'[W(w)].topic_shift)
    ]_vars

\* a round started because the detector answered true
C6_Witness ==
  /\ pc[W(1)] = "s_query"
  /\ loc[W(1)].topic_shift
  /\ last_synthesis_time # 0
  /\ now - last_synthesis_time < 60

\* C7 as stated: in the scenario no round runs up to and after the third
\* fragment; the fourth makes the buffer [1,2,3,4], a round runs over [2,3,4]
\* and the buffer ends as [4].
C7_Original ==
  /\ lastAppended <= 3 => pc[W(1)] \notin SynthPcs /\ structured_notes_history = <<>>
  /\ pc[W(1)] \in SynthPcs => loc[W(1)].window = <<2, 3, 4>>
  /\ (lastAppended = 4 /\ pc[W(1)] = "get") => transcription_buffers = <<4>>

\* C7: in the scenario, on a session that has never synthesized, the round
\* runs after the third fragment, over [1,2,3], and leaves the buffer [3]; the
\* fourth fragment, evaluated at 61 s, makes the buffer [3,4] and starts no
\* round.
C7_Scenario ==
  /\ lastAppended <= 2 =>
       /\ structured_notes_history = <<>>
       /\ pc[W(1)] \notin SynthPcs
       /\ transcription_buffers = [i \in 1..lastAppended |-> i]
  /\ pc[W(1)] \in SynthPcs =>
       /\ lastAppended = 3
       /\ loc[W(1)].window = <<1, 2, 3>>
       /\ structured_notes_history \in {<<>>, << StructuredNote(<<1, 2, 3>>) >>}
  /\ (lastAppended = 3 /\ pc[W(1)] = "get") =>
       /\ transcription_buffers = <<3>>
       /\ structured_notes_history = << StructuredNote(<<1, 2, 3>>) >>
  /\ lastAppended = 4 =>
       /\ transcription_buffers = <<3, 4>>
       /\ structured_notes_history = << StructuredNote(<<1, 2, 3>>) >>
       /\ pc[W(1)] \notin SynthPcs \cup {"shift"}

\* the fourth fragment has been evaluated at 61 s and the worker waits for a fifth
C7_Witness ==
  /\ lastAppended = 4
  /\ pc[W(1)] = "get"
  /\ now = Epoch + 61
  /\ lastPush.type = "transcription"
  /\ lastPush.num = 2

\* the step in which task t ends a round with success: the notes were sent
\* and synthesize_notes returns
Succeeds(t) == pc[t] = "s_notes" /\ pc'[t] \notin {"s_notes", "s_err", "cancelled"}

\* C8: right after every successful round, whoever ran it, the buffer holds
\* exactly one fragment, the one appended last.
C8_KeepsNewest ==
  [][\A t \in Tasks : Succeeds(t) => transcription_buffers' = <<lastAppended>>]_vars

\* a round over three fragments has succeeded and left the third in the buffer
C8_Witness ==
  /\ lastPush.type = "structured_notes"
  /\ Len(structured_notes_history) = 1
  /\ structured_notes_history[1].frags = <<1, 2, 3>>
  /\ transcription_buffers = <<3>>
  /\ last_synthesis_time = now

\* C9 as stated: every round is driven by a window of exactly three fragments.
C9_Original == \A t \in Tasks : pc[t] \in SynthPcs => Len(loc[t].window) = 3

\* the step in which task t starts a round
Starts(t) == pc'[t] = "s_query" /\ pc[t] # "s_query"

\* C9: every round, whoever starts it, is driven by the last min(3, n)
\* fragments of the n >= 1 fragments the buffer holds when the round starts,
\* so never by more than three nor by a fragment older than the last three,
\* and the window stays the same for the whole round.  A round the worker
\* starts straight from the trigger evaluation (the time trigger) has exactly
\* three.  A round the worker starts after the call of the topic-shift
\* detector has the three fragments the detector was called with, unless a
\* round of stop_recording has cut the buffer during that call: then it has
\* one fragment, the newest of those three.  A round started by
\* stop_recording can have one or two.
C9_Window ==
  [][\A t \in Tasks :
       /\ Starts(t) =>
            /\ loc'[t].window = LastN(transcription_buffers', 3)
            /\ loc'[t].window # <<>>
            /\ pc[t] = "send" => Len(loc'[t].window) = 3
            /\ pc[t] = "shift" =>
                 \/ loc'[t].window = loc[t].recent /\ Len(loc[t].recent) = 3
                 \/ loc'[t].window = <<loc[t].recent[Len(loc[t].recent)]>>
       /\ (pc[t] \in SynthPcs /\ pc'[t] \in SynthPcs) => loc'[t].window = loc[t].window
    ]_vars

\* stop_recording has run a round over the one fragment the buffer held; later
\* the detector was called with three fragments, a second round of
\* stop_recording cut the buffer during the call, and the worker's round
\* calls the collaborator with the one fragment that is left
C9_Witness ==
  /\ pc[W(1)] = "s_synth"
  /\ loc[W(1)].topic_shift
  /\ loc[W(1)].recent = <<1, 2, 3>>
  /\ loc[W(1)].window = <<3>>
  /\ Len(structured_notes_history) = 2
  /\ structured_notes_history[1] = StructuredNote(<<1>>)
  /\ structured_notes_history[2] = StructuredNote(<<1, 2, 3>>)

\* C10: a round whose call to the synthesis collaborator does not succeed (it
\* raises or returns success False) goes on to push synthesis_error.
C10_FailurePushesError ==
  [][\A t \in Tasks :
       (pc[t] = "s_synth" /\ pc'[t] \notin {"s_synth", "s_save", "cancelled"})
         => pc'[t] = "s_err"]_vars

\* C11: the last-synthesis time changes only in the step that ends a round
\* with success (the notes were sent); every other step of a round, and so
\* every step of a round that fails, leaves the last-synthesis time and the
\* buffer as they are, and a worker whose round failed goes back to the queue.
C11_FailedRoundFrame ==
  [][/\ last_synthesis_time' # last_synthesis_time =>
          /\ \E t \in Tasks : Succeeds(t)
          /\ lastPush'.type = "structured_notes"
          /\ lastPush'.res # "raise"
     /\ \A t \in Tasks : (pc[t] \in SynthPcs /\ pc'[t] # pc[t] /\ ~Succeeds(t)) =>
          /\ last_synthesis_time' = last_synthesis_time
          /\ transcription_buffers' = transcription_buffers
          /\ (IsWorker(t) /\ pc'[t] \notin SynthPcs) => pc'[t] \in {"top", "faulted"}
    ]_vars

\* a round over three fragments has failed, synthesis_error was sent, and the
\* worker waits for the next chunk with the buffer and the time untouched
C11_Witness ==
  /\ lastPush.type = "synthesis_error"
  /\ lastPush.res = "ok"
  /\ pc[W(1)] = "get"
  /\ transcription_buffers = <<1, 2, 3>>
  /\ last_synthesis_time = 0
  /\ structured_notes_history = <<>>

\* C12: the buffer, the synthesis history and the last-synthesis time are
\* changed by worker tasks only: no step of a connection handler changes any
\* of them.
C12_WorkerSoleMutator ==
  [][(\/ transcription_buffers' # transcription_buffers
      \/ structured_notes_history' # structured_notes_history
      \/ last_synthesis_time' # last_synthesis_time)
       => \A h \in Conns : pc'[H(h)] = pc[H(h)]]_vars

\* C13: a collaborator call that fails while a fragment is processed
\* (retrieval, enrichment, importance scoring, topic-shift detection) does not
\* end the worker.
C13_CollaboratorFailure ==
  [][\A w \in Conns :
       (/\ pc[W(w)] \in {"query", "enrich", "shift"}
        /\ pc'[W(w)] # pc[W(w)]
        /\ nfaults' > nfaults)
         => pc'[W(w)] # "faulted"]_vars

\* the worker is back at `while True` after a chunk it skipped with this
\* outcome of transcribe_local, and calls get() again: it takes the next
\* queued chunk when there is one and waits for one otherwise
Continues(w, outcomes) ==
  (pc[W(w)] = "top" /\ loc[W(w)].text \in outcomes) =>
     IF queues[audio_queues] = <<>>
       THEN /\ pc'[W(w)] = "get"
            /\ loc'[W(w)].q = audio_queues
            /\ deq' = deq
       ELSE /\ deq' = [deq EXCEPT ![Head(queues[audio_queues]).seg] = @ + 1]
            /\ queues' = [queues EXCEPT ![audio_queues] = Tail(@)]

\* the step in which a worker takes a chunk off a queue leaves the pipeline
\* state and the client untouched
SkipsChunk ==
  /\ transcription_buffers' = transcription_buffers
  /\ structured_notes_history' = structured_notes_history
  /\ last_synthesis_time' = last_synthesis_time
  /\ lastAppended' = lastAppended
  /\ lastPush' = lastPush
  /\ saved' = saved

\* C14: when transcribe_local raises on a chunk, the buffer, the history and
\* the last-synthesis time stay as they are, nothing is pushed or saved for
\* the chunk, and the worker goes on with the next queued chunk.
C14_TranscriptionFailure ==
  [][\A w \in Conns :
       /\ (deq' # deq /\ loc'[W(w)].text = "raise") =>
            /\ SkipsChunk
            /\ pc'[W(w)] = "top"
       /\ Continues(w, {"raise"})
    ]_vars

\* the transcription of the first chunk has failed, the second chunk is
\* queued, and nothing was appended or pushed for the first
C14_Witness ==
  /\ pc[W(1)] = "top"
  /\ loc[W(1)].text = "raise"
  /\ deq[1] = 1
  /\ Len(queues[audio_queues]) = 1
  /\ queues[audio_queues][1].seg = 2
  /\ transcription_buffers = <<>>
  /\ lastPush.type = "connection_confirmed"

\* C15: a chunk whose transcription is empty or whitespace only is not
\* appended to the buffer, nothing is scored, saved or pushed for it and the
\* trigger is not evaluated: the worker goes back to the queue.
C15_EmptyTranscription ==
  [][\A w \in Conns :
       /\ (deq' # deq /\ loc'[W(w)].text \in {"", " "}) =>
            /\ SkipsChunk
            /\ now' = now
            /\ pc'[W(w)] = "top"
       /\ Continues(w, {"", " "})
    ]_vars

\* after a fragment was appended, a chunk with a whitespace-only transcription
\* has been skipped
C15_Witness ==
  /\ pc[W(1)] = "top"
  /\ loc[W(1)].text = " "
  /\ deq[2] = 1
  /\ transcription_buffers = <<1>>
  /\ lastPush.type = "transcription"
  /\ lastPush.num = 1

\* C16: the synthesis history only grows: every step, of a round, of a final
\* synthesis, of a connect, a reconnect or a disconnect, leaves the entries
\* the history holds in place and unchanged, and at most appends to them.
C16_AppendOnly ==
  [][/\ Len(structured_notes_history') >= Len(structured_notes_history)
     /\ SubSeq(structured_notes_history', 1, Len(structured_notes_history))
          = structured_notes_history
    ]_vars

\* the round of a stop_recording on connection 1 appended a note; the client
\* went away, the handler disconnected, connection 2 came and cancelled the
\* first worker; the round of a stop_recording on connection 2 appended a
\* second note and its final synthesis pushed the notes made from both
C16_Witness ==
  /\ wsState[1] = "closed"
  /\ pc[H(1)] = "done"
  /\ pc[W(1)] = "cancelled"
  /\ active_connections = 2
  /\ ncmds = 2
  /\ structured_notes_history = <<StructuredNote(<<1>>), StructuredNote(<<1>>)>>
  /\ lastPush = [type |-> "final_notes", ws |-> 2, res |-> "ok", num |-> 0]

\* C17: a final synthesis whose call to the final-synthesis collaborator does
\* not succeed (it raises or returns success False) goes on to push
\* final_synthesis_error.
C17_FinalOutcome ==
  [][\A h \in Conns :
       (pc[H(h)] = "f_synth" /\ pc'[H(h)] \notin {"f_synth", "f_save"})
         => pc'[H(h)] = "f_err"]_vars

\* the step is one of final_synthesis in handler h: it is called for
\* request_final_synthesis, or it goes on from one of its awaits
FinalStep(h) ==
  \/ pc[H(h)] \in FinalPcs /\ pc'[H(h)] # pc[H(h)]
  \/ pc[H(h)] = "recv" /\ ncmds' # ncmds /\ loc'[H(h)].cmd = "final"

\* C18: no step of final_synthesis, however it ends and however often it is
\* run, changes the synthesis history, the buffer or the last-synthesis time.
C18_FinalFrame ==
  [][\A h \in Conns : FinalStep(h) =>
       /\ structured_notes_history' = structured_notes_history
       /\ transcription_buffers' = transcription_buffers
       /\ last_synthesis_time' = last_synthesis_time
    ]_vars

\* after a round of the worker, a second control message asked for a final
\* synthesis, which has failed and said so
C18_Witness ==
  /\ ncmds = 2
  /\ pc[H(1)] = "recv"
  /\ loc[H(1)].cmd = "final"
  /\ lastPush.type = "final_synthesis_error"
  /\ structured_notes_history = << StructuredNote(<<1, 2, 3>>) >>
  /\ transcription_buffers = <<3>>
  /\ last_synthesis_time = Epoch

\* the save of the fragment worker w is about to send has failed
SaveFailed(w) == pc[W(w)] = "send" /\ <<loc[W(w)].idx, loc[W(w)].seg>> \notin saved

\* C19: a save_transcription that fails does not end the worker: the fragment
\* stays in the buffer, its transcription event is pushed and the trigger is
\* evaluated as for a saved fragment.
C19_SaveFailure ==
  [][\A w \in Conns :
       /\ (pc[W(w)] = "save" /\ pc'[W(w)] # "save" /\ nfaults' > nfaults) =>
            /\ pc'[W(w)] = "send"
            /\ transcription_buffers' = transcription_buffers
            /\ SaveFailed(w)'
       /\ (SaveFailed(w) /\ pc'[W(w)] # "send") =>
            /\ loc[W(w)].seg = transcription_buffers'[Len(transcription_buffers')]
            /\ lastPush' = [type |-> "transcription", ws |-> loc[W(w)].ws, res |-> "ok",
                            num |-> Len(transcription_buffers)]
            /\ pc'[W(w)] =
                 IF Len(transcription_buffers) < 3 THEN "top"
                 ELSE IF now' - last_synthesis_time >= 60 \/ last_synthesis_time = 0
                   THEN "s_query" ELSE "shift"
    ]_vars

\* the third fragment could not be saved, was pushed all the same and has
\* started a round
C19_Witness ==
  /\ pc[W(1)] = "s_query"
  /\ loc[W(1)].seg = 3
  /\ loc[W(1)].window = <<1, 2, 3>>
  /\ saved = {<<0, 1>>, <<1, 2>>}
  /\ lastPush.type = "transcription"
  /\ lastPush.num = 3
  /\ nfaults = 1

\* C20: on stop_recording, after the sleep, a non-empty buffer starts one
\* round of synthesize_notes; final_synthesis is called only when that round
\* has ended (or with an empty buffer) and then finds the note of a round that
\* succeeded in the history; recording_stopped is sent only when
\* final_synthesis has returned.
C20_StopOrder ==
  [][\A h \in Conns :
       /\ (pc[H(h)] = "sleep" /\ pc'[H(h)] # "sleep") =>
            IF transcription_buffers # <<>>
              THEN /\ pc'[H(h)] = "s_query"
                   /\ loc'[H(h)].window = LastN(transcription_buffers, 3)
              ELSE pc'[H(h)] = IF structured_notes_history = <<>> THEN "stopped"
                               ELSE "f_started"
       /\ (loc[H(h)].cmd = "stop" /\ pc[H(h)] \in SynthPcs /\ pc'[H(h)] \notin SynthPcs) =>
            /\ pc[H(h)] \in {"s_synth", "s_notes", "s_err"}
            /\ Succeeds(H(h)) =>
                 /\ pc'[H(h)] = "f_started"
                 /\ StructuredNote(loc[H(h)].window) \in SeqRange(structured_notes_history')
       /\ (loc[H(h)].cmd = "stop" /\ pc'[H(h)] \in FinalPcs /\ pc[H(h)] \notin FinalPcs) =>
            /\ pc'[H(h)] = "f_started"
            /\ \/ pc[H(h)] = "sleep" /\ transcription_buffers = <<>>
               \/ pc[H(h)] \in {"s_synth", "s_notes", "s_err"}
       /\ (pc'[H(h)] = "stopped" /\ pc[H(h)] # "stopped") =>
            \/ pc[H(h)] \in {"f_synth", "f_notes", "f_err"}
            \/ /\ structured_notes_history = <<>>
               /\ pc[H(h)] \in {"sleep", "s_synth", "s_err"}
       /\ (pc[H(h)] # pc'[H(h)] /\ lastPush' # lastPush
             /\ lastPush'.type = "recording_stopped")
            => pc[H(h)] = "stopped"
    ]_vars

\* stop_recording with two fragments in the buffer: the round over them has
\* succeeded, the final synthesis has run and recording_stopped was sent
C20_Witness ==
  /\ pc[H(1)] = "recv"
  /\ ncmds = 1
  /\ lastPush.type = "recording_stopped"
  /\ lastPush.res = "ok"
  /\ structured_notes_history = << StructuredNote(<<1, 2>>) >>
  /\ transcription_buffers = <<2>>
  /\ nfaults = 0

\* C21: when the handler of a connection that is no longer the registered one
\* processes its disconnect, the registry keeps the connection it holds.
C21_SupersededDisconnect ==
  [][\A h \in Conns :
       (/\ pc[H(h)] # "done"
        /\ pc'[H(h)] = "done"
        /\ active_connections \notin {0, h})
         => active_connections' = active_connections]_vars

\* C22: once a round has appended its note to the history it goes on to send
\* the notes, stamp the synthesis time and cut the buffer: it does not end
\* with the history grown and the buffer and the time untouched.
C22_AllOrNothing ==
  [][\A t \in Tasks :
       (pc[t] \in {"s_save", "s_notes"} /\ pc'[t] # pc[t])
         => \/ pc'[t] = "s_notes"
            \/ /\ Succeeds(t)
               /\ transcription_buffers' = LastN(transcription_buffers, 1)
               /\ last_synthesis_time' = now'
    ]_vars

\* C23: no two fragments are saved under the same chunk index.
C23_UniqueIndex == \A x, y \in saved : x[1] = y[1] => x[2] = y[2]

\* the fragments that were in the window of a round that succeeded
Synthesized ==
  UNION {SeqRange(structured_notes_history[i].frags) :
           i \in 1..Len(structured_notes_history)}

\* C24: every saved fragment that is no longer in the buffer was in the window
\* of a round that succeeded.
C24_NoFragmentLost ==
  \A x \in saved : x[2] \in SeqRange(transcription_buffers) \cup Synthesized
====
